---- MODULE Spec2Model ----
(***************************************************************************)
(* Light-bike simulation core: the occupancy grid, the per-bike state      *)
(* machine (js/bike.js), the fixed-timestep tick (js/game.js) and the bot  *)
(* decision functions (bot.js).  Rendering, camera and HUD are left out.   *)
(*                                                                         *)
(* The arena is scaled: a session is played on an ArenaSize x ArenaSize    *)
(* grid with the four starting cells placed at the same quarter points as  *)
(* in the 80 x 80 original.  gridSize holds the size in force, so that the *)
(* decision functions can also be evaluated on the original 80 x 80 grid.  *)
(*                                                                         *)
(* Times are in milliseconds.  The origin of the clock is arbitrary: only  *)
(* differences of clock values are ever read.  Every step that lets time   *)
(* pass therefore shifts all stored time stamps back by the time passed,   *)
(* so that performance.now() reads `now` in every state; a stamp too old   *)
(* to be told from an older one is kept at the oldest value that matters.  *)
(***************************************************************************)
EXTENDS Integers, Sequences, FiniteSets, TLC

VARIABLES
  gridSize,     \* GRID_SIZE in force
  grid,         \* Game.grid: claimed cell <<gx, gz>> -> owner id (absent = null)
  bikes,        \* Game.bikes: id -> bike record ([] before the first start)
  bots,         \* Game.bots: id of a bot's bike -> personality
  running,      \* Game.running
  fastForward,  \* Game.fastForward
  tickAccum,    \* Game.tickAccum
  upd,          \* position inside Game.update: the while loop and its tickMs,
                \* with the time the call had to spend and the ticks it has run
  lastFrame,    \* `last` of the animation loop
  ui,           \* screen shown by the UI: "start", "none" or "gameOver"
  timers,       \* pending setTimeout callbacks: [due, winner] of showGameOver
  winner,       \* winner shown on the game-over screen (NULL: draw / none)
  tickLog       \* what the last executed _tick computed (history)

vars == <<gridSize, grid, bikes, bots, running, fastForward, tickAccum, upd,
          lastFrame, ui, timers, winner, tickLog>>

-----------------------------------------------------------------------------
(* Bounds of the model *)

ArenaSize == 4        \* side of the scaled arena
now == 1000           \* what performance.now() reads in every state
Elapsed == {100, 800}   \* wall-clock time between two animation frames
IdleElapsed == {800}        \* the same while no session runs
TickCost == {0, 50}         \* wall-clock time that passes inside one tick,
                            \* between collision detection and the moves
DecideSize == 3       \* side of the small grid handed to a decision function
MaxObstacles == 2     \* claimed cells on that grid
StartCount == 2       \* entries of a START_POSITIONS list handed to Game.start
HuntSize == 7         \* side of the grid on which AGGRESSIVE decides at close range
MaxCap == 4           \* largest of the small caps handed to floodFill

-----------------------------------------------------------------------------
(* constants.js *)

GRID_SIZE == 80
TICK_MS == 100
FAST_TICK_MS == 30
JUMP_DURATION_MS == 250
MAX_JUMPS == 2
FRAME_CLAMP_MS == 100
GAME_OVER_DELAY_MS == 800

NULL == "null"

Dirs == {"NORTH", "EAST", "SOUTH", "WEST"}

DIR_VECTOR ==
  [NORTH |-> [x |-> 0,  z |-> -1],
   EAST  |-> [x |-> 1,  z |-> 0],
   SOUTH |-> [x |-> 0,  z |-> 1],
   WEST  |-> [x |-> -1, z |-> 0]]

TURN_LEFT ==
  [NORTH |-> "WEST", WEST |-> "SOUTH", SOUTH |-> "EAST", EAST |-> "NORTH"]

TURN_RIGHT ==
  [NORTH |-> "EAST", EAST |-> "SOUTH", SOUTH |-> "WEST", WEST |-> "NORTH"]

\* START_POSITIONS of an n x n arena; for n = 80 these are
\* [20,40,EAST], [40,20,SOUTH], [60,40,WEST], [40,60,NORTH].
START_POSITIONS(n) ==
  << <<n \div 4, n \div 2, "EAST">>,
     <<n \div 2, n \div 4, "SOUTH">>,
     <<(3 * n) \div 4, n \div 2, "WEST">>,
     <<n \div 2, (3 * n) \div 4, "NORTH">> >>

PERSONALITIES == <<"AVOIDANT", "ENGAGING", "AGGRESSIVE">>

BikeIds == 1 .. 4
PlayerId == 1

-----------------------------------------------------------------------------
(* The grid: grid[gz][gx] is an owner id or null *)

EmptyGrid == [c \in {} |-> 0]

Claimed(g, gx, gz) == <<gx, gz>> \in DOMAIN g

GridSet(g, gx, gz, id) ==
  [c \in DOMAIN g \cup {<<gx, gz>>} |-> IF c = <<gx, gz>> THEN id ELSE g[c]]

-----------------------------------------------------------------------------
(* js/bike.js *)

NewBike(id, gx, gz, dir) ==
  [id |-> id, gx |-> gx, gz |-> gz, dir |-> dir, alive |-> TRUE,
   pendingTurn |-> NULL, trailGridCells |-> {},
   jumpCount |-> 0, jumpStartMs |-> 0]

\* queueTurn that keeps a turn already queued
queueTurnKeepFirst(b, side) ==
  IF b.alive /\ b.pendingTurn = NULL THEN [b EXCEPT !.pendingTurn = side] ELSE b

queueTurn(b, side) ==
  IF b.alive THEN [b EXCEPT !.pendingTurn = side] ELSE b

isJumping(b, t) ==
  b.jumpStartMs > 0 /\ (t - b.jumpStartMs) < JUMP_DURATION_MS

\* jump without the test for a jump in progress
jumpNoAirborneTest(b, t) ==
  IF ~b.alive \/ b.jumpCount >= MAX_JUMPS
  THEN b
  ELSE [b EXCEPT !.jumpCount = b.jumpCount + 1, !.jumpStartMs = t]

\* jump without the test for a charge left
jumpUnlimited(b, t) ==
  IF ~b.alive \/ isJumping(b, t)
  THEN b
  ELSE [b EXCEPT !.jumpCount = b.jumpCount + 1, !.jumpStartMs = t]

jump(b, t) ==
  IF ~b.alive \/ b.jumpCount >= MAX_JUMPS \/ isJumping(b, t)
  THEN b
  ELSE [b EXCEPT !.jumpCount = b.jumpCount + 1, !.jumpStartMs = t]

recordTrailCell(b, gx, gz) ==
  [b EXCEPT !.trailGridCells = b.trailGridCells \cup {<<gx, gz>>}]

\* clearTrail that clears the recorded cells whoever owns them
clearTrailGridAnyOwner(b, g) ==
  [c \in {d \in DOMAIN g : d \notin b.trailGridCells} |-> g[c]]

\* clearTrail: the grid with this bike's recorded cells cleared where it is
\* still their owner ...
clearTrailGrid(b, g) ==
  [c \in {d \in DOMAIN g : ~(d \in b.trailGridCells /\ g[d] = b.id)} |-> g[c]]

\* ... and the bike with its record emptied
clearTrailBike(b) == [b EXCEPT !.trailGridCells = {}]

TurnedDir(b) ==
  IF b.pendingTurn # NULL
  THEN (IF b.pendingTurn = "LEFT" THEN TURN_LEFT[b.dir] ELSE TURN_RIGHT[b.dir])
  ELSE b.dir

\* peekNext that leaves the pending turn out of account
peekNextStraight(b) ==
  LET v == DIR_VECTOR[b.dir]
  IN  [gx |-> b.gx + v.x, gz |-> b.gz + v.z]

peekNext(b) ==
  LET v == DIR_VECTOR[TurnedDir(b)]
  IN  [gx |-> b.gx + v.x, gz |-> b.gz + v.z]

\* step advancing along the heading held before the turn
stepOldHeading(b) ==
  LET v == DIR_VECTOR[b.dir]
  IN  [b EXCEPT !.dir = TurnedDir(b), !.pendingTurn = NULL,
                !.gx = b.gx + v.x, !.gz = b.gz + v.z]

\* step: apply the pending turn, then advance one cell
step(b) ==
  LET d == TurnedDir(b)
      v == DIR_VECTOR[d]
  IN  [b EXCEPT !.dir = d, !.pendingTurn = NULL,
                !.gx = b.gx + v.x, !.gz = b.gz + v.z]

\* updateVisual: an elapsed jump timer is cleared
updateVisual(b, t) ==
  IF b.jumpStartMs = 0 THEN b
  ELSE IF t - b.jumpStartMs < JUMP_DURATION_MS THEN b
  ELSE [b EXCEPT !.jumpStartMs = 0]

die(b) == [b EXCEPT !.alive = FALSE]

-----------------------------------------------------------------------------
(* bot.js: helpers *)

inBounds(gx, gz) == gx >= 0 /\ gx < gridSize /\ gz >= 0 /\ gz < gridSize

\* isFree without the bounds test
isFreeNoBounds(gx, gz, g) == ~Claimed(g, gx, gz)

isFree(gx, gz, g) == inBounds(gx, gz) /\ ~Claimed(g, gx, gz)

RECURSIVE lookAheadFrom(_, _, _, _, _, _)
lookAheadFrom(i, gx, gz, dir, steps, g) ==
  LET v == DIR_VECTOR[dir]
  IN  IF i > steps THEN steps
      ELSE IF ~isFree(gx + v.x * i, gz + v.z * i, g) THEN i - 1
      ELSE lookAheadFrom(i + 1, gx, gz, dir, steps, g)

\* number of free cells straight ahead of (gx, gz), at most `steps`
lookAhead(gx, gz, dir, steps, g) == lookAheadFrom(1, gx, gz, dir, steps, g)

SeqToSet(s) == {s[i] : i \in DOMAIN s}

\* one round of the while loop of floodFill: a cell is taken off the queue and
\* its unvisited free neighbours are all added, in the order +x, -x, +z, -z
floodRound(st, g) ==
  LET c == Head(st.queue)
      around == << <<c[1] + 1, c[2]>>, <<c[1] - 1, c[2]>>,
                   <<c[1], c[2] + 1>>, <<c[1], c[2] - 1>> >>
      fresh(n) == n \notin st.visited /\ isFree(n[1], n[2], g)
      added == SelectSeq(around, fresh)
  IN  [queue |-> Tail(st.queue) \o added,
       visited |-> st.visited \cup SeqToSet(added)]

\* the while loop, run for at most n rounds: it stops when the queue is empty
\* or `cap` cells have been visited.  (The rounds are split in halves to keep
\* the evaluation shallow; every round visits a cell, so `cap` rounds suffice.)
RECURSIVE floodLoop(_, _, _, _)
floodLoop(n, st, g, cap) ==
  IF st.queue = <<>> \/ Cardinality(st.visited) >= cap THEN st
  ELSE IF n <= 1 THEN floodRound(st, g)
  ELSE LET half == floodLoop(n \div 2, st, g, cap)
       IN  floodLoop(n - n \div 2, half, g, cap)

floodFill(gx, gz, g, cap) ==
  IF ~isFree(gx, gz, g) THEN 0
  ELSE Cardinality(floodLoop(cap, [queue |-> << <<gx, gz>> >>,
                                   visited |-> {<<gx, gz>>}], g, cap).visited)

FLOOD_CAP_DEFAULT == 300

safeOptions(b, g) ==
  LET cand(turn, dir) ==
        [turn |-> turn, dir |-> dir,
         nx |-> b.gx + DIR_VECTOR[dir].x, nz |-> b.gz + DIR_VECTOR[dir].z]
      candidates == << cand(NULL, b.dir),
                       cand("LEFT", TURN_LEFT[b.dir]),
                       cand("RIGHT", TURN_RIGHT[b.dir]) >>
      safe(c) == isFree(c.nx, c.nz, g)
  IN  SelectSeq(candidates, safe)

\* applyChoice that turns the bike at once
applyChoiceTurnNow(b, choice) ==
  IF choice.turn # NULL THEN [b EXCEPT !.dir = choice.dir] ELSE b

\* applyChoice that queues the turn to the other side
applyChoiceMirrored(b, choice) ==
  IF choice.turn # NULL
  THEN queueTurn(b, IF choice.turn = "LEFT" THEN "RIGHT" ELSE "LEFT")
  ELSE b

applyChoice(b, choice) ==
  IF choice.turn # NULL THEN queueTurn(b, choice.turn) ELSE b

\* the head of an ascending sort reversed: the last option of maximal score
sortedHeadLast(scored) ==
  LET last == CHOOSE i \in DOMAIN scored :
                /\ \A j \in DOMAIN scored : scored[j].score <= scored[i].score
                /\ \A j \in (i + 1) .. Len(scored) : scored[j].score < scored[i].score
  IN  scored[last]

\* scored.sort((a, b) => b.score - a.score); scored[0]: the sort is stable, so
\* the head is the first option, in enumeration order, of maximal score
sortedHead(scored) ==
  LET first == CHOOSE i \in DOMAIN scored :
                 /\ \A j \in DOMAIN scored : scored[j].score <= scored[i].score
                 /\ \A j \in 1 .. (i - 1) : scored[j].score < scored[i].score
  IN  scored[first]

\* The same for scores computed in floating point (reach * 5 + space * 0.8,
\* (80 - dist) * 0.6 + space * 0.4).  `score` is the exact value times 5 and
\* `parts` the integers it was computed from.  Rounding preserves the order of
\* different exact values and gives equal results for equal parts; exact ties
\* between different parts may round either way, so every option of maximal
\* exact score not preceded by one with the same parts is a possible head.
sortedHeads(scored) ==
  {scored[i] : i \in {k \in DOMAIN scored :
      /\ \A j \in DOMAIN scored : scored[j].score <= scored[k].score
      /\ \A j \in 1 .. (k - 1) :
            scored[j].score = scored[k].score => scored[j].parts # scored[k].parts}}

-----------------------------------------------------------------------------
(* bot.js: personalities.  Each gives the bike after the decision; where    *)
(* floating-point rounding decides, the set of bikes it can give.           *)

\* the array `opts.map(...)` gives: the sequence s with every element computed
\* once, when the array is built
Mapped(s) == SubSeq(s, 1, Cardinality(DOMAIN s))

avoidantScore(o, g) ==
  floodFill(o.nx, o.nz, g, FLOOD_CAP_DEFAULT) * 10
    + lookAhead(o.nx, o.nz, o.dir, 12, g)

avoidantScored(b, g) ==
  LET opts == safeOptions(b, g)
  IN  Mapped([i \in DOMAIN opts |->
           [turn |-> opts[i].turn, dir |-> opts[i].dir,
            nx |-> opts[i].nx, nz |-> opts[i].nz,
            score |-> avoidantScore(opts[i], g)]])

decideAvoidant(b, g) ==
  IF safeOptions(b, g) = <<>> THEN b
  ELSE applyChoice(b, sortedHead(avoidantScored(b, g)))

engagingScored(b, g) ==
  LET opts == safeOptions(b, g)
  IN  Mapped([i \in DOMAIN opts |->
           LET space == floodFill(opts[i].nx, opts[i].nz, g, 200)
               reach == lookAhead(opts[i].nx, opts[i].nz, opts[i].dir, 20, g)
           IN  [turn |-> opts[i].turn, dir |-> opts[i].dir,
                nx |-> opts[i].nx, nz |-> opts[i].nz,
                score |-> reach * 25 + space * 4, parts |-> <<reach, space>>]])

decideEngaging(b, g) ==
  IF safeOptions(b, g) = <<>> THEN {b}
  ELSE {applyChoice(b, h) : h \in sortedHeads(engagingScored(b, g))}

Abs(n) == IF n < 0 THEN -n ELSE n

PRED == 3

\* the scores without the requirement of 4 clear cells ahead
aggressiveScoredReckless(b, g, playerBike) ==
  LET opts == safeOptions(b, g)
      pv == DIR_VECTOR[playerBike.dir]
      predX == playerBike.gx + pv.x * PRED
      predZ == playerBike.gz + pv.z * PRED
  IN  Mapped([i \in DOMAIN opts |->
           LET interceptDist == Abs(opts[i].nx - predX) + Abs(opts[i].nz - predZ)
               space == floodFill(opts[i].nx, opts[i].nz, g, 150)
           IN  [turn |-> opts[i].turn, dir |-> opts[i].dir,
                nx |-> opts[i].nx, nz |-> opts[i].nz,
                score |-> (80 - interceptDist) * 3 + space * 2,
                parts |-> <<interceptDist, space>>]])

aggressiveScored(b, g, playerBike) ==
  LET opts == safeOptions(b, g)
      pv == DIR_VECTOR[playerBike.dir]
      predX == playerBike.gx + pv.x * PRED
      predZ == playerBike.gz + pv.z * PRED
  IN  Mapped([i \in DOMAIN opts |->
           LET interceptDist == Abs(opts[i].nx - predX) + Abs(opts[i].nz - predZ)
               safety == lookAhead(opts[i].nx, opts[i].nz, opts[i].dir, 6, g)
               space == floodFill(opts[i].nx, opts[i].nz, g, 150)
           IN  [turn |-> opts[i].turn, dir |-> opts[i].dir,
                nx |-> opts[i].nx, nz |-> opts[i].nz,
                score |-> IF safety < 4 THEN -999 * 5
                          ELSE (80 - interceptDist) * 3 + space * 2,
                parts |-> IF safety < 4 THEN <<>> ELSE <<interceptDist, space>>]])

\* `!playerBike`: an absent opponent is the record NoBike
NoBike == [id |-> 0, alive |-> FALSE]

decideAggressive(b, g, playerBike) ==
  IF playerBike = NoBike \/ ~playerBike.alive THEN {decideAvoidant(b, g)}
  ELSE IF safeOptions(b, g) = <<>> THEN {b}
  ELSE IF Abs(b.gx - playerBike.gx) + Abs(b.gz - playerBike.gz) > 30
       THEN decideEngaging(b, g)
  ELSE LET heads == sortedHeads(aggressiveScored(b, g, playerBike))
       IN  {IF h.score < 0 THEN decideAvoidant(b, g) ELSE applyChoice(b, h)
              : h \in heads}

\* Bot.decide
decide(personality, b, g, playerBike) ==
  CASE personality = "AVOIDANT"   -> {decideAvoidant(b, g)}
    [] personality = "ENGAGING"   -> decideEngaging(b, g)
    [] personality = "AGGRESSIVE" -> decideAggressive(b, g, playerBike)

-----------------------------------------------------------------------------
(* js/game.js *)

BikeOrder == [i \in 1 .. Len(START_POSITIONS(gridSize)) |-> i]

Permutations3 ==
  {p \in [1 .. 3 -> 1 .. 3] : \A i, j \in 1 .. 3 : i # j => p[i] # p[j]}

\* _spawnBikes: bikes and pre-marked starting cells
spawnedBikes(n) ==
  [i \in BikeIds |->
     LET sp == START_POSITIONS(n)[i]
     IN  recordTrailCell(NewBike(i, sp[1], sp[2], sp[3]), sp[1], sp[2])]

spawnedGrid(n) ==
  [c \in {<<START_POSITIONS(n)[i][1], START_POSITIONS(n)[i][2]>> : i \in BikeIds}
     |-> CHOOSE i \in BikeIds :
           /\ c = <<START_POSITIONS(n)[i][1], START_POSITIONS(n)[i][2]>>
           /\ \A j \in BikeIds :
                c = <<START_POSITIONS(n)[j][1], START_POSITIONS(n)[j][2]>> => j <= i]

NoTick ==
  [ticked |-> FALSE, decided |-> <<>>, grid |-> EmptyGrid, nextCells |-> <<>>,
   jumpDetect |-> {}, jumpCommit |-> {},
   dyingChecked |-> {}, dying |-> {},
   restarted |-> FALSE]    \* the session was started from the game-over screen

Idle == [active |-> FALSE, tickMs |-> 0, budget |-> 0, ran |-> 0]

\* bot decisions: each alive bot's bike after Bot.decide
BotOutcomes(bs, g, i) ==
  IF i \in DOMAIN bots /\ bs[i].alive
  THEN decide(bots[i], bs[i], g, bs[PlayerId])
  ELSE {bs[i]}

\* the bots decide one after the other; a decision reads the grid, the bot's
\* own bike and the player's, none of which another bot's decision changes
DecidedBikes(bs, g) ==
  UNION {{d \in [BikeIds -> UNION {out[i] : i \in BikeIds}] :
            \A i \in BikeIds : d[i] \in out[i]}
         : out \in {[i \in BikeIds |-> BotOutcomes(bs, g, i)]}}

\* `this.bots.forEach(bot => { if (bot.bike.alive) bot.decide(grid, player) })`
\* for the bots taken in the given order: each decision reads the bikes as
\* the decisions before it left them
RECURSIVE decideInOrder(_, _, _)
decideInOrder(order, bs, g) ==
  IF order = <<>> THEN {bs}
  ELSE UNION {decideInOrder(Tail(order), [bs EXCEPT ![Head(order)] = d], g) :
                d \in BotOutcomes(bs, g, Head(order))}

AliveIds(bs) == {i \in DOMAIN bs : bs[i].alive}

\* the bounds test with the far edges off by one
oobFarEdge(next) ==
  next.gx < 0 \/ next.gx > gridSize \/ next.gz < 0 \/ next.gz > gridSize

oob(next) ==
  next.gx < 0 \/ next.gx >= gridSize \/ next.gz < 0 \/ next.gz >= gridSize

\* collision detection in which a bike's own trail does not count
dyingCheckedOthers(bs, g, t) ==
  {i \in AliveIds(bs) :
     LET next == peekNext(bs[i])
     IN  \/ oob(next)
         \/ /\ ~isJumping(bs[i], t)
            /\ Claimed(g, next.gx, next.gz)
            /\ g[<<next.gx, next.gz>>] # i}

\* collision detection that does not exempt airborne bikes from trails
dyingCheckedGrounded(bs, g, t) ==
  {i \in AliveIds(bs) :
     LET next == peekNext(bs[i])
     IN  oob(next) \/ Claimed(g, next.gx, next.gz)}

\* collision detection: out-of-bounds, or grounded and into a claimed cell
dyingChecked(bs, g, t) ==
  {i \in AliveIds(bs) :
     LET next == peekNext(bs[i])
     IN  \/ oob(next)
         \/ ~oob(next) /\ ~isJumping(bs[i], t) /\ Claimed(g, next.gx, next.gz)}

\* head-on that eliminates only the bike found second in a cell
RECURSIVE headOnSecond(_, _, _, _)
headOnSecond(ids, nextCells, dying, seen) ==
  IF ids = <<>> THEN dying
  ELSE LET id == Head(ids)
           k == <<nextCells[id].gx, nextCells[id].gz>>
       IN  IF id \notin DOMAIN nextCells \/ id \in dying
             THEN headOnSecond(Tail(ids), nextCells, dying, seen)
           ELSE IF k \in DOMAIN seen
             THEN headOnSecond(Tail(ids), nextCells, dying \cup {id}, seen)
           ELSE headOnSecond(Tail(ids), nextCells, dying,
                             [c \in DOMAIN seen \cup {k} |->
                                IF c = k THEN id ELSE seen[c]])

\* no head-on detection at all
headOnNone(ids, nextCells, dying, seen) == dying

\* head-on: the loop over nextCells in insertion order; `seen` maps a cell to
\* the first bike found moving into it
RECURSIVE headOn(_, _, _, _)
headOn(ids, nextCells, dying, seen) ==
  IF ids = <<>> THEN dying
  ELSE LET id == Head(ids)
           k == <<nextCells[id].gx, nextCells[id].gz>>
       IN  IF id \notin DOMAIN nextCells \/ id \in dying
             THEN headOn(Tail(ids), nextCells, dying, seen)
           ELSE IF k \in DOMAIN seen
             THEN headOn(Tail(ids), nextCells, dying \cup {id, seen[k]}, seen)
           ELSE headOn(Tail(ids), nextCells, dying,
                       [c \in DOMAIN seen \cup {k} |->
                          IF c = k THEN id ELSE seen[c]])

\* kill + clear trails for losers, in bike order
RECURSIVE killLosers(_, _, _)
killLosers(ids, st, dying) ==
  IF ids = <<>> THEN st
  ELSE LET i == Head(ids)
       IN  IF i \in dying
           THEN killLosers(Tail(ids),
                  [bikes |-> [st.bikes EXCEPT ![i] = clearTrailBike(die(@))],
                   grid  |-> clearTrailGrid(st.bikes[i], st.grid)],
                  dying)
           ELSE killLosers(Tail(ids), st, dying)

\* step survivors, advancing first and marking the cell arrived at
RECURSIVE stepSurvivorsMarkAfter(_, _, _)
stepSurvivorsMarkAfter(ids, st, t) ==
  IF ids = <<>> THEN st
  ELSE LET i == Head(ids)
           b == st.bikes[i]
           a == step(b)
       IN  IF ~b.alive THEN stepSurvivorsMarkAfter(Tail(ids), st, t)
           ELSE IF ~isJumping(b, t)
             THEN stepSurvivorsMarkAfter(Tail(ids),
                    [bikes |-> [st.bikes EXCEPT
                                  ![i] = recordTrailCell(a, a.gx, a.gz)],
                     grid  |-> GridSet(st.grid, a.gx, a.gz, b.id)], t)
           ELSE stepSurvivorsMarkAfter(Tail(ids),
                    [bikes |-> [st.bikes EXCEPT ![i] = a],
                     grid  |-> st.grid], t)

\* step survivors without marking any cell
RECURSIVE stepSurvivorsNoMark(_, _, _)
stepSurvivorsNoMark(ids, st, t) ==
  IF ids = <<>> THEN st
  ELSE LET i == Head(ids)
           b == st.bikes[i]
       IN  IF ~b.alive THEN stepSurvivorsNoMark(Tail(ids), st, t)
           ELSE stepSurvivorsNoMark(Tail(ids),
                    [bikes |-> [st.bikes EXCEPT ![i] = step(b)],
                     grid  |-> st.grid], t)

\* step survivors, in bike order: mark the current cell when on the ground,
\* then advance
RECURSIVE stepSurvivors(_, _, _)
stepSurvivors(ids, st, t) ==
  IF ids = <<>> THEN st
  ELSE LET i == Head(ids)
           b == st.bikes[i]
       IN  IF ~b.alive THEN stepSurvivors(Tail(ids), st, t)
           ELSE IF ~isJumping(b, t)
             THEN stepSurvivors(Tail(ids),
                    [bikes |-> [st.bikes EXCEPT
                                  ![i] = step(recordTrailCell(b, b.gx, b.gz))],
                     grid  |-> GridSet(st.grid, b.gx, b.gz, b.id)], t)
           ELSE stepSurvivors(Tail(ids),
                    [bikes |-> [st.bikes EXCEPT ![i] = step(b)],
                     grid  |-> st.grid], t)

Min(a, b) == IF a < b THEN a ELSE b

Max(a, b) == IF a < b THEN b ELSE a

\* time stamps after d ms have passed (see the head of the module)
shiftJump(b, d) ==
  IF b.jumpStartMs = 0 THEN b
  ELSE [b EXCEPT !.jumpStartMs = Max(@ - d, now - JUMP_DURATION_MS)]

shiftBikes(bs, d) == [i \in DOMAIN bs |-> shiftJump(bs[i], d)]

shiftFrame(t, d) == Max(t - d, now - FRAME_CLAMP_MS)

shiftTimers(ts, d) == {[t EXCEPT !.due = Max(@ - d, now)] : t \in ts}

Init ==
  /\ gridSize = ArenaSize
  /\ grid = EmptyGrid
  /\ bikes = <<>>
  /\ bots = <<>>
  /\ running = FALSE
  /\ fastForward = FALSE
  /\ tickAccum = 0
  /\ upd = Idle
  /\ lastFrame = now - FRAME_CLAMP_MS
  /\ ui = "start"
  /\ timers = {}
  /\ winner = NULL
  /\ tickLog = NoTick

\* Game.start that leaves the timestep of the previous session in force
StartKeepsFast ==
  /\ ~upd.active
  /\ ui \in {"start", "gameOver"}
  /\ \E p \in Permutations3 :
       bots' = [i \in BikeIds \ {PlayerId} |-> PERSONALITIES[p[i - 1]]]
  /\ bikes' = spawnedBikes(gridSize)
  /\ grid' = spawnedGrid(gridSize)
  /\ running' = TRUE
  /\ tickAccum' = 0
  /\ ui' = "none"
  /\ winner' = NULL
  /\ tickLog' = [NoTick EXCEPT !.restarted = (ui = "gameOver")]
  /\ UNCHANGED <<gridSize, fastForward, upd, lastFrame, timers>>

\* the start / restart button: ui.clear(), then Game.start
Start ==
  /\ ~upd.active
  /\ ui \in {"start", "gameOver"}
  /\ \E p \in Permutations3 :
       bots' = [i \in BikeIds \ {PlayerId} |-> PERSONALITIES[p[i - 1]]]
  /\ bikes' = spawnedBikes(gridSize)
  /\ grid' = spawnedGrid(gridSize)
  /\ running' = TRUE
  /\ fastForward' = FALSE
  /\ tickAccum' = 0
  /\ ui' = "none"
  /\ winner' = NULL
  /\ tickLog' = [NoTick EXCEPT !.restarted = (ui = "gameOver")]
  /\ UNCHANGED <<gridSize, upd, lastFrame, timers>>

\* a keydown listener that does not test whether a session is running
KeydownAnyTime(code) ==
  /\ ~upd.active
  /\ IF PlayerId \notin DOMAIN bikes \/ ~bikes[PlayerId].alive
       THEN UNCHANGED bikes
     ELSE bikes' = [bikes EXCEPT ![PlayerId] =
            CASE code = "KeyA"  -> queueTurn(@, "LEFT")
              [] code = "KeyD"  -> queueTurn(@, "RIGHT")
              [] code = "Space" -> jump(@, now)]
  /\ UNCHANGED <<gridSize, grid, bots, running, fastForward, tickAccum, upd,
                 lastFrame, ui, timers, winner, tickLog>>

\* the keydown listener of _bindInput
Keydown(code) ==
  /\ ~upd.active
  /\ IF ~running THEN UNCHANGED bikes
     ELSE IF PlayerId \notin DOMAIN bikes \/ ~bikes[PlayerId].alive
       THEN UNCHANGED bikes
     ELSE bikes' = [bikes EXCEPT ![PlayerId] =
            CASE code = "KeyA"  -> queueTurn(@, "LEFT")
              [] code = "KeyD"  -> queueTurn(@, "RIGHT")
              [] code = "Space" -> jump(@, now)]
  /\ UNCHANGED <<gridSize, grid, bots, running, fastForward, tickAccum, upd,
                 lastFrame, ui, timers, winner, tickLog>>

\* a frame whose elapsed time is not clamped
FrameUnclamped(e) ==
  /\ ~upd.active
  /\ LET t == now + e
         delta == t - lastFrame
         tickMs == IF fastForward THEN FAST_TICK_MS ELSE TICK_MS
     IN  /\ lastFrame' = shiftFrame(t, e)
         /\ timers' = shiftTimers(timers, e)
         /\ IF ~running
            THEN /\ bikes' = shiftBikes(bikes, e)
                 /\ UNCHANGED <<tickAccum, upd>>
            ELSE /\ bikes' = shiftBikes(
                               [i \in DOMAIN bikes |->
                                  IF bikes[i].alive THEN updateVisual(bikes[i], t)
                                  ELSE bikes[i]], e)
                 /\ tickAccum' = tickAccum + delta
                 /\ upd' = IF tickAccum' >= tickMs
                           THEN [active |-> TRUE, tickMs |-> tickMs,
                                 budget |-> tickAccum', ran |-> 0]
                           ELSE Idle
  /\ UNCHANGED <<gridSize, grid, bots, running, fastForward, ui, winner, tickLog>>

\* an animation frame, e ms after the clock was last read: loop(t) and
\* Game.update(delta) up to its while loop
Frame(e) ==
  /\ ~upd.active
  /\ LET t == now + e
         delta == Min(t - lastFrame, FRAME_CLAMP_MS)
         tickMs == IF fastForward THEN FAST_TICK_MS ELSE TICK_MS
     IN  /\ lastFrame' = shiftFrame(t, e)
         /\ timers' = shiftTimers(timers, e)
         /\ IF ~running
            THEN /\ bikes' = shiftBikes(bikes, e)
                 /\ UNCHANGED <<tickAccum, upd>>
            ELSE /\ bikes' = shiftBikes(
                               [i \in DOMAIN bikes |->
                                  IF bikes[i].alive THEN updateVisual(bikes[i], t)
                                  ELSE bikes[i]], e)
                 /\ tickAccum' = tickAccum + delta
                 /\ upd' = IF tickAccum' >= tickMs
                           THEN [active |-> TRUE, tickMs |-> tickMs,
                                 budget |-> tickAccum', ran |-> 0]
                           ELSE Idle
  /\ UNCHANGED <<gridSize, grid, bots, running, fastForward, ui, winner, tickLog>>

\* _tick after the bots have decided.  tD and tC are the clock values read by
\* isJumping in collision detection and before marking a cell.
tick(decided, g, tD, tC) ==
  LET alive0 == AliveIds(decided)
      nextCells == [i \in alive0 |-> peekNext(decided[i])]
      checked == dyingChecked(decided, g, tD)
      dying == headOn(BikeOrder, nextCells, checked, EmptyGrid)
      killed == killLosers(BikeOrder, [bikes |-> decided, grid |-> g], dying)
      stepped == stepSurvivors(BikeOrder, killed, tC)
  IN  [bikes |-> stepped.bikes, grid |-> stepped.grid,
       log |-> [ticked |-> TRUE, decided |-> decided, grid |-> g,
                nextCells |-> nextCells,
                jumpDetect |-> {i \in alive0 : isJumping(decided[i], tD)},
                jumpCommit |-> {i \in alive0 \ dying : isJumping(decided[i], tC)},
                dyingChecked |-> checked, dying |-> dying]]

\* win check that waits until nobody is left
sessionOverNoneLeft(bs) == Cardinality(AliveIds(bs)) < 1

\* win check: `alive.length <= 1`
sessionOver(bs) == Cardinality(AliveIds(bs)) <= 1

\* `alive[0] ?? null`
firstAlive(bs) ==
  IF AliveIds(bs) = {} THEN NULL
  ELSE CHOOSE i \in AliveIds(bs) : \A j \in AliveIds(bs) : i <= j

\* the test with the flag the wrong way round
playerJustDiedFlagged(ff, bs) == ff /\ ~bs[PlayerId].alive

\* `!this.fastForward && !player.alive`
playerJustDied(ff, bs) == ~ff /\ ~bs[PlayerId].alive

\* one round of the while loop of Game.update: tickAccum -= tickMs; _tick()
Tick ==
  /\ upd.active
  /\ \E decided \in DecidedBikes(bikes, grid), c \in TickCost :
       /\ \E r \in {tick(decided, grid, now, now + c)} :
            \E over \in {sessionOver(r.bikes)} :
              \E toFast \in {~over /\ playerJustDied(fastForward, r.bikes)} :
                /\ bikes' = shiftBikes(r.bikes, c)
                /\ grid' = r.grid
                /\ tickLog' = r.log
                /\ running' = ~over
                /\ timers' = shiftTimers(
                               IF over
                               THEN timers \cup
                                      {[due |-> now + c + GAME_OVER_DELAY_MS,
                                        winner |-> firstAlive(r.bikes)]}
                               ELSE timers, c)
                /\ fastForward' = (fastForward \/ toFast)
                /\ tickAccum' = IF toFast THEN 0 ELSE tickAccum - upd.tickMs
                /\ upd' = IF tickAccum' >= upd.tickMs /\ running'
                          THEN [upd EXCEPT !.ran = @ + 1] ELSE Idle
                /\ lastFrame' = shiftFrame(lastFrame, c)
  /\ UNCHANGED <<gridSize, bots, ui, winner>>

\* the timer set at the end of a session fires: ui.showGameOver(winner, ...)
ShowGameOver ==
  /\ ~upd.active
  /\ \E t \in timers :
       /\ now >= t.due
       /\ timers' = timers \ {t}
       /\ winner' = t.winner
  /\ ui' = "gameOver"
  /\ UNCHANGED <<gridSize, grid, bikes, bots, running, fastForward, tickAccum,
                 upd, lastFrame, tickLog>>

Next ==
  \/ Start
  \/ \E code \in {"KeyA", "KeyD", "Space"} : Keydown(code)
  \/ \E e \in (IF running THEN Elapsed ELSE IdleElapsed) : Frame(e)
  \/ Tick
  \/ ShowGameOver

Spec == Init /\ [][Next]_vars

\* an animation frame of any length
AnyFrame == \E e \in (IF running THEN Elapsed ELSE IdleElapsed) : Frame(e)

\* The while loop of Game.update runs its ticks without giving up control:
\* weak fairness of Tick.  A tick can be taken exactly when a call of update
\* is inside its loop (upd.active), and it then always changes the state, so
\* WF_vars(Tick) is written out with upd.active for ENABLED <<Tick>>_vars.
TickFair == []<>(~upd.active) \/ []<><<Tick>>_vars

\* The animation loop asks for its next frame before anything else, so frames
\* keep coming: weak fairness of the frame.
FairSpec == Spec /\ WF_vars(AnyFrame) /\ TickFair

-----------------------------------------------------------------------------
(* decideAvoidant as a function of its inputs: a bike anywhere on a small    *)
(* grid with up to MaxObstacles claimed cells, or at the centre of the       *)
(* 80 x 80 grid with at most one claimed cell among the eight around it.     *)

DecideBot == 2

Cells(n) == (0 .. n - 1) \X (0 .. n - 1)

ObstacleGrid(cells) == [c \in cells |-> PlayerId]

SmallInputs ==
  {[size |-> DecideSize, gx |-> p[1], gz |-> p[2], dir |-> d, claimed |-> o] :
     p \in Cells(DecideSize), d \in Dirs,
     o \in {q \in SUBSET Cells(DecideSize) : Cardinality(q) <= MaxObstacles}}

CentreInputs ==
  LET m == GRID_SIZE \div 2
      ring == {<<m + dx, m + dz>> : dx \in {-1, 0, 1}, dz \in {-1, 0, 1}} \ {<<m, m>>}
  IN  {[size |-> GRID_SIZE, gx |-> m, gz |-> m, dir |-> d, claimed |-> o] :
         d \in Dirs, o \in {{}} \cup {{c} : c \in ring}}

DecideInit ==
  \E in \in SmallInputs \cup CentreInputs :
    /\ gridSize = in.size
    /\ grid = ObstacleGrid(in.claimed)
    /\ bikes = [i \in {DecideBot} |-> NewBike(DecideBot, in.gx, in.gz, in.dir)]
    /\ bots = [i \in {DecideBot} |-> "AVOIDANT"]
    /\ running = FALSE
    /\ fastForward = FALSE
    /\ tickAccum = 0
    /\ upd = Idle
    /\ lastFrame = now - FRAME_CLAMP_MS
    /\ ui = "none"
    /\ timers = {}
    /\ winner = NULL
    /\ tickLog = NoTick

\* one call of bot.decide(grid, playerBike) for an AVOIDANT bot
Decide ==
  /\ ~tickLog.ticked
  /\ bikes' = [bikes EXCEPT ![DecideBot] = decideAvoidant(@, grid)]
  /\ tickLog' = [NoTick EXCEPT !.ticked = TRUE]
  /\ UNCHANGED <<gridSize, grid, bots, running, fastForward, tickAccum, upd,
                 lastFrame, ui, timers, winner>>

DecideNext == Decide

DecideSpec == DecideInit /\ [][DecideNext]_vars

-----------------------------------------------------------------------------
(* Game.start as a function of START_POSITIONS: lists of StartCount cells    *)
(* of a DecideSize x DecideSize grid and of the ring of cells around it,     *)
(* with the headings of the original list.                                   *)

StartConfigs ==
  [1 .. StartCount -> (-1 .. DecideSize) \X (-1 .. DecideSize)]

\* the forEach of _spawnBikes from entry i on: the bike is constructed and
\* pushed, then its starting cell is marked; this.grid[gz] is undefined for a
\* row outside the grid, and the assignment to its element throws
RECURSIVE spawnFrom(_, _, _, _)
spawnFrom(cfg, i, personalities, st) ==
  IF i > Len(cfg) THEN st
  ELSE LET gx == cfg[i][1]
           gz == cfg[i][2]
           bike == NewBike(i, gx, gz, START_POSITIONS(gridSize)[i][3])
           pushed == [k \in DOMAIN st.bikes \cup {i} |->
                        IF k = i THEN bike ELSE st.bikes[k]]
       IN  IF gz < 0 \/ gz >= gridSize
           THEN [st EXCEPT !.bikes = pushed, !.threw = TRUE]
           ELSE spawnFrom(cfg, i + 1, personalities,
                  [bikes |-> [pushed EXCEPT ![i] = recordTrailCell(bike, gx, gz)],
                   grid  |-> GridSet(st.grid, gx, gz, i),
                   bots  |-> IF i > 1
                             THEN [k \in DOMAIN st.bots \cup {i} |->
                                     IF k = i THEN personalities[i - 1]
                                     ELSE st.bots[k]]
                             ELSE st.bots,
                   threw |-> FALSE])

\* Game.start with START_POSITIONS = cfg, from the start screen
StartWith(cfg) ==
  /\ ~upd.active
  /\ ui = "start"
  /\ \E p \in Permutations3 :
       \E st \in {spawnFrom(cfg, 1, [k \in 1 .. 3 |-> PERSONALITIES[p[k]]],
                            [bikes |-> <<>>, grid |-> EmptyGrid,
                             bots |-> <<>>, threw |-> FALSE])} :
         /\ bikes' = st.bikes
         /\ grid' = st.grid
         /\ bots' = st.bots
         /\ running' = ~st.threw
  /\ fastForward' = FALSE
  /\ tickAccum' = 0
  /\ ui' = "none"
  /\ UNCHANGED <<gridSize, upd, lastFrame, timers, winner, tickLog>>

StartInit ==
  /\ gridSize = DecideSize
  /\ grid = EmptyGrid
  /\ bikes = <<>>
  /\ bots = <<>>
  /\ running = FALSE
  /\ fastForward = FALSE
  /\ tickAccum = 0
  /\ upd = Idle
  /\ lastFrame = now - FRAME_CLAMP_MS
  /\ ui = "start"
  /\ timers = {}
  /\ winner = NULL
  /\ tickLog = NoTick

StartNext == \E cfg \in StartConfigs : StartWith(cfg)

StartSpec == StartInit /\ [][StartNext]_vars

-----------------------------------------------------------------------------
(* decideAggressive as a function of its inputs: the bot anywhere on a       *)
(* HuntSize x HuntSize grid with the opponent close by, or at the centre of  *)
(* the 80 x 80 grid with the opponent at Manhattan distance 30 or 31; the    *)
(* opponent alive, dead or absent.                                           *)

\* the opponent handed to Bot.decide: Game.bikes[0]
Opponent == IF PlayerId \in DOMAIN bikes THEN bikes[PlayerId] ELSE NoBike

OpponentCells == {<<0, 0>>, <<HuntSize - 1, HuntSize \div 2>>}

NearInputs ==
  {[size |-> HuntSize, gx |-> p[1], gz |-> p[2], dir |-> d, claimed |-> o,
    opp |-> q] :
     p \in Cells(HuntSize), d \in Dirs,
     o \in {{}, {<<HuntSize \div 2, HuntSize \div 2>>}},
     q \in {NoBike} \cup
           {[pos |-> c, dir |-> e, alive |-> TRUE] : c \in OpponentCells, e \in Dirs} \cup
           {[pos |-> c, dir |-> "NORTH", alive |-> FALSE] : c \in OpponentCells}}

FarInputs ==
  LET m == GRID_SIZE \div 2
  IN  {[size |-> GRID_SIZE, gx |-> m, gz |-> m, dir |-> d, claimed |-> o,
        opp |-> [pos |-> c, dir |-> e, alive |-> a]] :
         d \in Dirs,
         o \in {{}, {<<m + 1, m>>}, {<<m + 2, m - 1>>}},
         c \in {<<m + 30, m>>, <<m + 31, m>>, <<m - 16, m + 15>>, <<m + 15, m - 15>>},
         e \in {"NORTH", "WEST"}, a \in BOOLEAN}

AggressiveInit ==
  \E in \in {i \in NearInputs \cup FarInputs :
                i.opp # NoBike => i.opp.pos # <<i.gx, i.gz>>} :
    /\ gridSize = in.size
    /\ grid = ObstacleGrid(in.claimed)
    /\ bikes = [i \in (IF in.opp = NoBike THEN {} ELSE {PlayerId}) \cup {DecideBot} |->
                 IF i = DecideBot THEN NewBike(DecideBot, in.gx, in.gz, in.dir)
                 ELSE IF in.opp.alive
                      THEN NewBike(PlayerId, in.opp.pos[1], in.opp.pos[2], in.opp.dir)
                      ELSE die(NewBike(PlayerId, in.opp.pos[1], in.opp.pos[2], in.opp.dir))]
    /\ bots = [i \in {DecideBot} |-> "AGGRESSIVE"]
    /\ running = FALSE
    /\ fastForward = FALSE
    /\ tickAccum = 0
    /\ upd = Idle
    /\ lastFrame = now - FRAME_CLAMP_MS
    /\ ui = "none"
    /\ timers = {}
    /\ winner = NULL
    /\ tickLog = NoTick

\* one call of bot.decide(grid, playerBike) for an AGGRESSIVE bot
AggressiveDecide ==
  /\ ~tickLog.ticked
  /\ \E d \in decide(bots[DecideBot], bikes[DecideBot], grid, Opponent) :
       bikes' = [bikes EXCEPT ![DecideBot] = d]
  /\ tickLog' = [NoTick EXCEPT !.ticked = TRUE]
  /\ UNCHANGED <<gridSize, grid, bots, running, fastForward, tickAccum, upd,
                 lastFrame, ui, timers, winner>>

AggressiveNext == AggressiveDecide

AggressiveSpec == AggressiveInit /\ [][AggressiveNext]_vars

-----------------------------------------------------------------------------
(* floodFill as a function of its inputs: any start cell on or just outside  *)
(* a small grid with up to MaxObstacles claimed cells, and a small cap or    *)
(* the default one.                                                          *)

FloodInputs ==
  {[start |-> c, claimed |-> o, cap |-> k] :
     c \in (-1 .. DecideSize) \X (-1 .. DecideSize),
     o \in {q \in SUBSET Cells(DecideSize) : Cardinality(q) <= MaxObstacles},
     k \in (1 .. MaxCap) \cup {FLOOD_CAP_DEFAULT}}

FloodInit ==
  \E in \in FloodInputs :
    /\ gridSize = DecideSize
    /\ grid = ObstacleGrid(in.claimed)
    /\ bikes = <<>>
    /\ bots = <<>>
    /\ running = FALSE
    /\ fastForward = FALSE
    /\ tickAccum = 0
    /\ upd = Idle
    /\ lastFrame = now - FRAME_CLAMP_MS
    /\ ui = "none"
    /\ timers = {}
    /\ winner = NULL
    /\ tickLog = [ticked |-> FALSE, start |-> in.start, cap |-> in.cap, result |-> 0]

\* one call of floodFill(gx, gz, grid, cap); the history records its result
Flood ==
  /\ ~tickLog.ticked
  /\ tickLog' = [tickLog EXCEPT
                   !.ticked = TRUE,
                   !.result = floodFill(tickLog.start[1], tickLog.start[2],
                                        grid, tickLog.cap)]
  /\ UNCHANGED <<gridSize, grid, bikes, bots, running, fastForward, tickAccum,
                 upd, lastFrame, ui, timers, winner>>

FloodNext == Flood

FloodSpec == FloodInit /\ [][FloodNext]_vars

-----------------------------------------------------------------------------
(* Properties *)

\* C1: at every tick boundary no cell is held in the recorded trail of two
\* different live entities (every cell is claimed by at most one identity).
C1_OneIdentityPerCell ==
  \A i, j \in AliveIds(bikes) :
    i # j => bikes[i].trailGridCells \cap bikes[j].trailGridCells = {}

\* the bikes the last tick found alive, and those of them it let live
TickAlive == DOMAIN tickLog.nextCells
TickSurvivors == TickAlive \ tickLog.dying

SameCell(a, b) == a.gx = b.gx /\ a.gz = b.gz

\* every order in which the bikes can be evaluated
Orders ==
  {o \in [DOMAIN BikeOrder -> BikeIds] :
     \A i, j \in DOMAIN BikeOrder : i # j => o[i] # o[j]}

C2_WitnessAirborne ==
  /\ tickLog.ticked
  /\ \E i \in tickLog.jumpDetect, j \in TickAlive \ tickLog.jumpDetect :
       /\ {i, j} \cap tickLog.dyingChecked = {}
       /\ SameCell(tickLog.nextCells[i], tickLog.nextCells[j])

\* C3: an airborne entity whose next cell is out of bounds is eliminated in
\* that tick; one whose next cell is in bounds and trail-occupied is not
\* eliminated by that (it dies only head-on); while airborne it claims no cell.
C3_Airborne ==
  tickLog.ticked =>
    /\ \A i \in tickLog.jumpDetect :
         LET next == tickLog.nextCells[i]
         IN  /\ oob(next) => (i \in tickLog.dying /\ ~bikes[i].alive)
             /\ (~oob(next) /\ Claimed(tickLog.grid, next.gx, next.gz))
                  => /\ i \notin tickLog.dyingChecked
                     /\ (i \in tickLog.dying
                           => \E j \in TickAlive \ {i} :
                                SameCell(tickLog.nextCells[j], next))
                     /\ (i \notin tickLog.dying
                           => /\ bikes[i].alive
                              /\ bikes[i].gx = next.gx /\ bikes[i].gz = next.gz)
    /\ \A i \in tickLog.jumpCommit :
         LET c == <<tickLog.decided[i].gx, tickLog.decided[i].gz>>
         IN  /\ bikes[i].trailGridCells = tickLog.decided[i].trailGridCells
             /\ (c \in DOMAIN grid /\ grid[c] = i)
                  => (c \in DOMAIN tickLog.grid /\ tickLog.grid[c] = i)

\* an airborne entity moved onto a trail cell and lived, claiming nothing
C3_Witness ==
  /\ tickLog.ticked
  /\ \E i \in tickLog.jumpDetect \cap tickLog.jumpCommit :
       /\ ~oob(tickLog.nextCells[i])
       /\ Claimed(tickLog.grid, tickLog.nextCells[i].gx, tickLog.nextCells[i].gz)
       /\ bikes[i].alive
       /\ <<tickLog.decided[i].gx, tickLog.decided[i].gz>> \notin DOMAIN grid

\* an airborne entity left the grid and died
C3_WitnessOob ==
  /\ tickLog.ticked
  /\ \E i \in tickLog.jumpDetect :
       oob(tickLog.nextCells[i]) /\ ~bikes[i].alive

\* C4: at every tick boundary the position of every alive entity is in
\* bounds: 0 <= gx < N and 0 <= gz < N.
C4_AliveInBounds ==
  \A i \in AliveIds(bikes) :
    /\ 0 <= bikes[i].gx /\ bikes[i].gx < gridSize
    /\ 0 <= bikes[i].gz /\ bikes[i].gz < gridSize

\* a tick in which one entity ran off the grid while another, at the edge,
\* lived on
C4_Witness ==
  /\ tickLog.ticked
  /\ \E i \in tickLog.dying : oob(tickLog.nextCells[i])
  /\ \E j \in AliveIds(bikes) :
       bikes[j].gx \in {0, gridSize - 1} \/ bikes[j].gz \in {0, gridSize - 1}

\* the winner the session has reported: held by the pending game-over timer,
\* or shown on the game-over screen
Reported(w) ==
  \/ \E t \in timers : t.winner = w
  \/ ui = "gameOver" /\ winner = w

\* C5: after a tick that leaves at most one entity alive the session is not
\* running and reports the sole survivor as winner, or no winner when none
\* survive; a running session has at least two alive entities.
C5_SessionEnd ==
  /\ (tickLog.ticked /\ Cardinality(AliveIds(bikes)) <= 1)
       => /\ ~running
          /\ \A i \in AliveIds(bikes) : Reported(i)
          /\ AliveIds(bikes) = {} => Reported(NULL)
  /\ running => Cardinality(AliveIds(bikes)) >= 2

C5_Witness ==
  /\ tickLog.ticked
  /\ ~running
  /\ ui = "gameOver"
  /\ \E i \in BikeIds : AliveIds(bikes) = {i} /\ winner = i

C5_WitnessDraw ==
  /\ tickLog.ticked
  /\ ~running
  /\ AliveIds(bikes) = {}
  /\ ui = "gameOver" /\ winner = NULL

\* the straight / left / right neighbour cells of a bike
Neighbours(b) ==
  {[gx |-> b.gx + DIR_VECTOR[d].x, gz |-> b.gz + DIR_VECTOR[d].z] :
     d \in {b.dir, TURN_LEFT[b.dir], TURN_RIGHT[b.dir]}}

Blocked(c, g) == oob(c) \/ Claimed(g, c.gx, c.gz)

\* in the state the last tick started from, exactly two entities were alive
\* and i, on the ground, had all three neighbour cells blocked
BoxedIn(i) ==
  /\ tickLog.ticked
  /\ Cardinality(TickAlive) = 2
  /\ i \in TickAlive \ tickLog.jumpDetect
  /\ \A c \in Neighbours(tickLog.decided[i]) : Blocked(c, tickLog.grid)

\* C6: with exactly two entities in the session, a grounded entity whose
\* straight, left and right neighbour cells are all blocked at a tick boundary
\* has no safe option, gets no turn queued by the decision step, and is
\* eliminated in the next tick; the other entity, if it survives that tick, is
\* declared winner and the session ends.
C6_DeadEnd ==
  \A i \in BikeIds :
    BoxedIn(i) =>
      /\ safeOptions(tickLog.decided[i], tickLog.grid) = <<>>
      /\ i \in DOMAIN bots => tickLog.decided[i].pendingTurn = NULL
      /\ i \in tickLog.dying /\ ~bikes[i].alive
      /\ ~running
      /\ \A j \in TickAlive \ {i} : bikes[j].alive => Reported(j)

\* a boxed-in bot died and the other entity won
C6_Witness ==
  \E i \in DOMAIN bots :
    /\ BoxedIn(i)
    /\ \E j \in TickAlive \ {i} : bikes[j].alive /\ ui = "gameOver" /\ winner = j

\* the same with the player boxed in
C6_WitnessPlayer ==
  /\ BoxedIn(PlayerId)
  /\ \E j \in TickAlive \ {PlayerId} : bikes[j].alive

\* C7: the position after advance() is the position before it plus the unit
\* vector of the heading held after the pending turn (none, left or right)
\* has been applied.
C7_AdvanceOneUnit ==
  tickLog.ticked =>
    \A i \in TickSurvivors :
      LET b == tickLog.decided[i]
          d == CASE b.pendingTurn = "LEFT"  -> TURN_LEFT[b.dir]
                 [] b.pendingTurn = "RIGHT" -> TURN_RIGHT[b.dir]
                 [] b.pendingTurn = NULL    -> b.dir
      IN  /\ bikes[i].dir = d
          /\ bikes[i].gx = b.gx + DIR_VECTOR[d].x
          /\ bikes[i].gz = b.gz + DIR_VECTOR[d].z
          /\ Abs(bikes[i].gx - b.gx) + Abs(bikes[i].gz - b.gz) = 1

\* every heading was advanced from under every pending turn
C7_Seen(dir, turn) ==
  /\ tickLog.ticked
  /\ \E i \in TickSurvivors :
       tickLog.decided[i].dir = dir /\ tickLog.decided[i].pendingTurn = turn

C7_Witness == C7_Seen("NORTH", "LEFT")

\* C8: jump() on an entity that is already airborne changes neither its
\* jump count nor its airborne timer.
C8_JumpWhileAirborne ==
  [][(Keydown("Space") /\ running /\ isJumping(bikes[PlayerId], now))
       => /\ bikes'[PlayerId].jumpCount = bikes[PlayerId].jumpCount
          /\ bikes'[PlayerId].jumpStartMs = bikes[PlayerId].jumpStartMs]_vars

\* the player is airborne with a charge left, some time into the jump: a
\* Space keydown here is a jump() while airborne, and leaves this very state
C8_Witness ==
  /\ running
  /\ bikes[PlayerId].alive
  /\ isJumping(bikes[PlayerId], now)
  /\ bikes[PlayerId].jumpStartMs < now
  /\ bikes[PlayerId].jumpCount < MAX_JUMPS

\* C10: AVOIDANT selects, among the safe options, the one with the largest
\* score 10 * floodFill(cap 300) + lookAhead(12 steps); of options with equal
\* scores the earlier in the order straight, left, right wins; on a fully open
\* 80 x 80 grid, at the centre and heading EAST, it queues no turn.
C10_AvoidantArgmax ==
  tickLog.ticked =>
    LET b == bikes[DecideBot]
        opts == safeOptions(b, grid)
        score(o) == 10 * floodFill(o.nx, o.nz, grid, 300)
                      + lookAhead(o.nx, o.nz, o.dir, 12, grid)
    IN  /\ opts # <<>> =>
             \E k \in DOMAIN opts :
               /\ opts[k].turn = b.pendingTurn
               /\ \A j \in DOMAIN opts : score(opts[j]) <= score(opts[k])
               /\ \A j \in 1 .. (k - 1) : score(opts[j]) < score(opts[k])
        /\ (/\ gridSize = GRID_SIZE
            /\ grid = EmptyGrid
            /\ b.gx = GRID_SIZE \div 2 /\ b.gz = GRID_SIZE \div 2
            /\ b.dir = "EAST") => b.pendingTurn = NULL

\* the decision was taken on the open 80 x 80 grid, at the centre, heading EAST
C10_Witness ==
  /\ tickLog.ticked
  /\ gridSize = GRID_SIZE
  /\ grid = EmptyGrid
  /\ bikes[DecideBot].gx = GRID_SIZE \div 2 /\ bikes[DecideBot].gz = GRID_SIZE \div 2
  /\ bikes[DecideBot].dir = "EAST"
  /\ Len(safeOptions(bikes[DecideBot], grid)) = 3

\* going straight was safe, and a turn won on its score
C10_WitnessTurn ==
  /\ tickLog.ticked
  /\ bikes[DecideBot].pendingTurn # NULL
  /\ safeOptions(bikes[DecideBot], grid) # <<>>
  /\ safeOptions(bikes[DecideBot], grid)[1].turn = NULL

\* the state Game.start leaves behind
Fresh ==
  LET sp == START_POSITIONS(gridSize)
  IN  /\ running /\ ~fastForward /\ tickAccum = 0
      /\ ui = "none" /\ timers = {}
      /\ DOMAIN bikes = BikeIds
      /\ DOMAIN grid = {<<sp[i][1], sp[i][2]>> : i \in BikeIds}
      /\ Cardinality(DOMAIN grid) = Cardinality(BikeIds)
      /\ \A i \in BikeIds :
           /\ grid[<<sp[i][1], sp[i][2]>>] = i
           /\ bikes[i] = [id |-> i, gx |-> sp[i][1], gz |-> sp[i][2],
                          dir |-> sp[i][3], alive |-> TRUE,
                          pendingTurn |-> NULL,
                          trailGridCells |-> {<<sp[i][1], sp[i][2]>>},
                          jumpCount |-> 0, jumpStartMs |-> 0]
           /\ ~isJumping(bikes[i], now)
      /\ DOMAIN bots = BikeIds \ {PlayerId}
      /\ {bots[i] : i \in DOMAIN bots} = {PERSONALITIES[k] : k \in 1 .. 3}

\* C11: immediately after startSession, also when it restarts a previous
\* session, the grid holds only the starting cells, each claimed by the entity
\* starting on it, every entity is alive, grounded, at its starting cell and
\* heading with no pending turn and no jump used, and the session runs at the
\* normal timestep with an empty accumulator; nothing of the previous session
\* remains.
C11_StartResets == [][Start => Fresh']_vars

\* a session restarted from the game-over screen, before anything else happened
C11_Witness ==
  /\ ~tickLog.ticked
  /\ tickLog.restarted
  /\ Fresh

\* the timestep is the accelerated one exactly when the player is dead
FastIffDead ==
  running =>
    /\ fastForward <=> ~bikes[PlayerId].alive
    /\ upd.active =>
         upd.tickMs = (IF bikes[PlayerId].alive THEN TICK_MS ELSE FAST_TICK_MS)

\* C12: at every tick boundary of a running session the accelerated timestep
\* is in effect if and only if the controlled entity is dead; it is switched
\* on in the tick in which the controlled entity dies, when the session goes
\* on, and is not switched off before the next startSession.
C12_FastForward ==
  /\ []FastIffDead
  /\ [][(fastForward /\ ~fastForward') => Start]_vars

\* the tick in which the player died and the session went on
C12_Witness ==
  /\ tickLog.ticked
  /\ PlayerId \in tickLog.dying
  /\ running
  /\ fastForward

Keys == {"KeyA", "KeyD", "Space"}

\* C13: a turn or jump key pressed while the session is not running or the
\* controlled entity is dead changes no state; advanceTime on a session that
\* is not running runs no tick and changes neither grid nor entities nor
\* accumulator (the clock alone moves on); a session that is not running is
\* set running by startSession only.
C13_NoOps ==
  [][/\ ((\E code \in Keys : Keydown(code))
           /\ (~running \/ ~bikes[PlayerId].alive))
          => UNCHANGED vars
     /\ ((\E e \in Elapsed \cup IdleElapsed : Frame(e)) /\ ~running)
          => /\ UNCHANGED <<grid, tickAccum, upd, running, fastForward, tickLog>>
             /\ ~upd.active
             /\ \E e \in Elapsed \cup IdleElapsed : bikes' = shiftBikes(bikes, e)
     /\ (~running /\ running') => Start]_vars

\* an ended session that the player has won: a turn or jump key would act on
\* the player if the session were running
C13_Witness ==
  /\ ~running
  /\ tickLog.ticked
  /\ bikes[PlayerId].alive
  /\ bikes[PlayerId].pendingTurn = NULL
  /\ ~isJumping(bikes[PlayerId], now)
  /\ bikes[PlayerId].jumpCount < MAX_JUMPS

\* a running session with the player dead
C13_WitnessDead ==
  /\ running
  /\ ~bikes[PlayerId].alive

Pos(b) == <<b.gx, b.gz>>

Owns(g, i, c) == c \in DOMAIN g /\ g[c] = i

\* C14 as stated: at every tick boundary the cell at the position of each
\* alive grounded entity is claimed in the grid by that entity.
C14_PositionClaimed ==
  \A i \in AliveIds(bikes) :
    ~isJumping(bikes[i], now) => Owns(grid, i, Pos(bikes[i]))

\* C14 amended: the position of an entity is claimed by it immediately after
\* startSession only.  After a tick, an alive entity that was grounded at the
\* commit step owns the cell it has just left, one unit vector behind its
\* position, and that cell is in its recorded trail; the cell at the position
\* of an entity that was grounded at the collision check is unclaimed: it is
\* claimed by the commit step of the next tick.
C14_ClaimedOnLeaving ==
  /\ (running /\ ~tickLog.ticked) =>
       \A i \in BikeIds : Owns(grid, i, Pos(bikes[i]))
  /\ tickLog.ticked =>
       /\ \A i \in TickSurvivors \ tickLog.jumpCommit :
            LET c == Pos(tickLog.decided[i])
            IN  /\ Owns(grid, i, c)
                /\ c \in bikes[i].trailGridCells
                /\ c = <<bikes[i].gx - DIR_VECTOR[bikes[i].dir].x,
                         bikes[i].gz - DIR_VECTOR[bikes[i].dir].z>>
       /\ \A i \in TickSurvivors \ tickLog.jumpDetect :
            Pos(bikes[i]) \notin DOMAIN grid

\* after a tick a grounded survivor stands on an unclaimed cell
C14_Witness ==
  /\ tickLog.ticked
  /\ running
  /\ \E i \in TickSurvivors \ (tickLog.jumpDetect \cup tickLog.jumpCommit) :
       /\ bikes[i].alive
       /\ ~isJumping(bikes[i], now)
       /\ Pos(bikes[i]) \notin DOMAIN grid
       /\ Owns(grid, i, Pos(tickLog.decided[i]))

\* C15: the commit-moves step of a tick writes only to cells that are empty or
\* already owned by the writing entity: the owner of a claimed cell changes to
\* another identity in no tick unless the cell was released in that tick by
\* the death of its owner.
C15_NoOverwrite ==
  [][Tick => \A c \in DOMAIN grid \cap DOMAIN grid' :
               grid'[c] # grid[c] => grid[c] \in tickLog'.dying]_vars

BoundsOrTrail ==
  {i \in TickAlive :
     LET next == tickLog.nextCells[i]
     IN  \/ oob(next)
         \/ i \notin tickLog.jumpDetect
              /\ Claimed(tickLog.grid, next.gx, next.gz)}

\* those of the others that share their next cell with another of the others
Shared ==
  {i \in TickAlive \ BoundsOrTrail :
     \E j \in TickAlive \ (BoundsOrTrail \cup {i}) :
       SameCell(tickLog.nextCells[i], tickLog.nextCells[j])}

\* C17: in a tick an alive entity is eliminated if and only if its next cell
\* is out of bounds, or it is grounded and its next cell is claimed in the
\* grid as it stood at the start of the tick, or it shares its next cell with
\* another entity not dying for one of these reasons; every other alive
\* entity survives the tick and stands on its next cell.
C17_EliminatedIff ==
  tickLog.ticked =>
    /\ tickLog.dying = BoundsOrTrail \cup Shared
    /\ \A i \in TickAlive :
         IF i \in BoundsOrTrail \cup Shared
         THEN ~bikes[i].alive
         ELSE /\ bikes[i].alive
              /\ bikes[i].gx = tickLog.nextCells[i].gx
              /\ bikes[i].gz = tickLog.nextCells[i].gz

\* a tick with a bike that ran into a trail on the ground, and a survivor
C17_Witness ==
  /\ tickLog.ticked
  /\ \E i \in BoundsOrTrail : ~oob(tickLog.nextCells[i])
  /\ \E j \in TickAlive : bikes[j].alive

\* a bike ran into the trail of a bike that died in the same tick
C17_WitnessDyingOwner ==
  /\ tickLog.ticked
  /\ \E i \in BoundsOrTrail :
       LET c == <<tickLog.nextCells[i].gx, tickLog.nextCells[i].gz>>
       IN  /\ c \in DOMAIN tickLog.grid
           /\ tickLog.grid[c] # i
           /\ tickLog.grid[c] \in tickLog.dying

\* a bike ran into its own trail
C17_WitnessOwnTrail ==
  /\ tickLog.ticked
  /\ \E i \in BoundsOrTrail :
       Owns(tickLog.grid, i, <<tickLog.nextCells[i].gx, tickLog.nextCells[i].gz>>)

\* bikes and grid as the commit-deaths step of the last tick left them
AfterDeaths ==
  killLosers(BikeOrder, [bikes |-> tickLog.decided, grid |-> tickLog.grid],
             tickLog.dying)

\* C18: after the commit-deaths step of a tick no cell is owned by an entity
\* that died in it; no survivor has claimed or moved by then; every cell owned
\* by another entity is left as it was; and at every tick boundary the owner
\* of every claimed cell is an alive entity.
C18_Release ==
  /\ \A c \in DOMAIN grid : grid[c] \in AliveIds(bikes)
  /\ tickLog.ticked =>
       /\ \A c \in DOMAIN AfterDeaths.grid :
            AfterDeaths.grid[c] \notin tickLog.dying
       /\ \A c \in DOMAIN tickLog.grid :
            IF tickLog.grid[c] \in tickLog.dying
            THEN c \notin DOMAIN AfterDeaths.grid
            ELSE Owns(AfterDeaths.grid, tickLog.grid[c], c)
       /\ DOMAIN AfterDeaths.grid \subseteq DOMAIN tickLog.grid
       /\ \A i \in TickSurvivors : AfterDeaths.bikes[i] = tickLog.decided[i]
       /\ \A c \in DOMAIN AfterDeaths.grid \cap DOMAIN grid :
            grid[c] # AfterDeaths.grid[c] => grid[c] \in TickSurvivors

\* a tick in which a bike died and its cells were released while the cells of
\* a survivor stayed
C18_Witness ==
  /\ tickLog.ticked
  /\ \E i \in tickLog.dying : \E c \in DOMAIN tickLog.grid :
       tickLog.grid[c] = i /\ c \notin DOMAIN grid
  /\ \E j \in TickSurvivors : \E c \in DOMAIN tickLog.grid :
       tickLog.grid[c] = j /\ Owns(grid, j, c)

\* a bike died with a cell in its recorded trail that another bike owned
C18_WitnessForeign ==
  /\ tickLog.ticked
  /\ \E i \in tickLog.dying : \E c \in tickLog.decided[i].trailGridCells :
       c \in DOMAIN tickLog.grid /\ tickLog.grid[c] \in TickSurvivors

-----------------------------------------------------------------------------
\* the alive bots of the last tick that had a safe option when they decided
WithSafeOption ==
  {i \in DOMAIN bots \cap TickAlive :
     safeOptions(tickLog.decided[i], tickLog.grid) # <<>>}

\* C19: after the decide step of a tick, the next cell of every alive bot
\* that has a safe option is in bounds and unclaimed, and it is the cell of
\* one of its safe options; such a bot is not marked dying by the bounds and
\* trail check of the tick, so if it dies in the tick it dies head-on.
C19_SafeChoice ==
  tickLog.ticked =>
    \A i \in WithSafeOption :
      LET b == tickLog.decided[i]
          next == peekNext(b)
          opts == safeOptions(b, tickLog.grid)
      IN  /\ next = tickLog.nextCells[i]
          /\ ~oob(next)
          /\ ~Claimed(tickLog.grid, next.gx, next.gz)
          /\ \E k \in DOMAIN opts :
                /\ opts[k].turn = b.pendingTurn
                /\ opts[k].nx = next.gx /\ opts[k].nz = next.gz
          /\ i \notin tickLog.dyingChecked
          /\ i \in tickLog.dying =>
                \E j \in TickAlive \ {i} :
                  SameCell(tickLog.nextCells[j], next)

\* a bot whose cell straight ahead was not free turned onto a free one, while
\* another bot without a safe option was caught by the bounds and trail check
C19_Witness ==
  /\ tickLog.ticked
  /\ \E i \in WithSafeOption :
       LET b == tickLog.decided[i]
           v == DIR_VECTOR[b.dir]
       IN  /\ b.pendingTurn # NULL
           /\ ~isFree(b.gx + v.x, b.gz + v.z, tickLog.grid)
           /\ bikes[i].alive
  /\ \E j \in (DOMAIN bots \cap TickAlive) \ WithSafeOption :
       j \in tickLog.dyingChecked

\* a bot that had a safe option died head-on
C19_WitnessHeadOn ==
  /\ tickLog.ticked
  /\ \E i \in WithSafeOption : i \in tickLog.dying

-----------------------------------------------------------------------------
\* clear cells ahead of a safe option, as decideAggressive measures them
Safety(o, g) == lookAhead(o.nx, o.nz, o.dir, 6, g)

ManDist(a, b) == Abs(a.gx - b.gx) + Abs(a.gz - b.gz)

Undecided == [bikes[DecideBot] EXCEPT !.pendingTurn = NULL]

C20_WitnessFar ==
  /\ tickLog.ticked
  /\ Opponent # NoBike
  /\ Opponent.alive
  /\ ManDist(Undecided, Opponent) = 31
  /\ bikes[DecideBot] # decideAvoidant(Undecided, grid)

\* the opponent alive at distance 30, and a decision ENGAGING cannot take
C20_WitnessAtThirty ==
  /\ tickLog.ticked
  /\ Opponent # NoBike
  /\ Opponent.alive
  /\ ManDist(Undecided, Opponent) = 30
  /\ bikes[DecideBot] \notin decideEngaging(Undecided, grid)

\* the opponent dead and close, and a decision the scores of AGGRESSIVE
\* would not give
C20_WitnessDead ==
  /\ tickLog.ticked
  /\ Opponent # NoBike
  /\ ~Opponent.alive
  /\ ManDist(Undecided, Opponent) <= 30
  /\ safeOptions(Undecided, grid) # <<>>
  /\ bikes[DecideBot] \notin
       {applyChoice(Undecided, h) :
          h \in sortedHeads(aggressiveScored(Undecided, grid, Opponent))}

\* no opponent at all
C20_WitnessAbsent ==
  /\ tickLog.ticked
  /\ Opponent = NoBike
  /\ bikes[DecideBot].pendingTurn # NULL

\* the opponent alive and close, and every safe option short of 4 clear cells
C20_WitnessAllShort ==
  /\ tickLog.ticked
  /\ Opponent # NoBike
  /\ Opponent.alive
  /\ ManDist(Undecided, Opponent) <= 30
  /\ safeOptions(Undecided, grid) # <<>>
  /\ \A k \in DOMAIN safeOptions(Undecided, grid) :
       Safety(safeOptions(Undecided, grid)[k], grid) < 4

-----------------------------------------------------------------------------
\* the free cells one step away from a set of cells
FreeAround(cells, g) ==
  {n \in Cells(gridSize) :
     /\ isFree(n[1], n[2], g)
     /\ \E c \in cells : Abs(c[1] - n[1]) + Abs(c[2] - n[2]) = 1}

\* the cells reachable from a set of free cells through free cells only
RECURSIVE ReachableFrom(_, _)
ReachableFrom(cells, g) ==
  IF FreeAround(cells, g) \subseteq cells THEN cells
  ELSE ReachableFrom(cells \cup FreeAround(cells, g), g)

Reachable(c, g) == IF isFree(c[1], c[2], g) THEN ReachableFrom({c}, g) ELSE {}

\* C21: floodFill returns the number of cells reachable from the start cell
\* through free cells only, capped at cap: the result never exceeds cap, it
\* is the reachable count when that count is at most cap, and it is 0 when
\* the start cell is not free.
C21_FloodCapped ==
  tickLog.ticked =>
    LET n == Cardinality(Reachable(tickLog.start, grid))
    IN  /\ tickLog.result <= tickLog.cap
        /\ n <= tickLog.cap => tickLog.result = n
        /\ ~isFree(tickLog.start[1], tickLog.start[2], grid) => tickLog.result = 0

\* what floodFill does keep: the result is the reachable count when that
\* count is at most cap; otherwise it is at least cap, at most the reachable
\* count, and exceeds cap by at most 3; it is 0 when the start is not free.
C21_FloodBounds ==
  tickLog.ticked =>
    LET n == Cardinality(Reachable(tickLog.start, grid))
    IN  /\ n <= tickLog.cap => tickLog.result = n
        /\ n > tickLog.cap =>
             /\ tickLog.cap <= tickLog.result
             /\ tickLog.result <= n
             /\ tickLog.result <= tickLog.cap + 3
        /\ ~isFree(tickLog.start[1], tickLog.start[2], grid) => tickLog.result = 0

\* a call that returned more than its cap
C21_Witness ==
  /\ tickLog.ticked
  /\ tickLog.result > tickLog.cap

-----------------------------------------------------------------------------
Sides == {"LEFT", "RIGHT"}

Rotated(dir, turn) ==
  IF turn = "LEFT" THEN TURN_LEFT[dir]
  ELSE IF turn = "RIGHT" THEN TURN_RIGHT[dir]
  ELSE dir

\* queueTurn leaves a dead bike as it is; on an alive bike it sets pendingTurn
\* to the side given, whatever was queued before, and nothing else
QueueTurnEffect ==
  \A i \in DOMAIN bikes : \A side \in Sides :
    queueTurn(bikes[i], side) =
      IF bikes[i].alive THEN [bikes[i] EXCEPT !.pendingTurn = side] ELSE bikes[i]

\* C22: queueTurn on a dead entity changes nothing; on an alive entity it
\* overwrites any unconsumed pending turn, so the turn pending when a tick
\* starts is the last one queued; the tick rotates the heading of a survivor
\* exactly once by the pending turn and leaves pendingTurn empty, so a tick
\* that starts with no turn pending keeps the heading.
C22_QueueTurn ==
  /\ []QueueTurnEffect
  /\ [][\A code \in {"KeyA", "KeyD"} :
          (Keydown(code) /\ running /\ bikes[PlayerId].alive) =>
             bikes'[PlayerId] =
               [bikes[PlayerId] EXCEPT
                  !.pendingTurn = IF code = "KeyA" THEN "LEFT" ELSE "RIGHT"]]_vars
  /\ [][Tick =>
          /\ tickLog'.decided[PlayerId] = bikes[PlayerId]
          /\ \A i \in DOMAIN tickLog'.nextCells \ tickLog'.dying :
               /\ bikes'[i].pendingTurn = NULL
               /\ bikes'[i].dir =
                    Rotated(tickLog'.decided[i].dir, tickLog'.decided[i].pendingTurn)
               /\ tickLog'.decided[i].pendingTurn = NULL =>
                    bikes'[i].dir = tickLog'.decided[i].dir]_vars

\* a tick turned the player right, and a turn to the other side is queued
\* while the player has a dead bike beside it
C22_Witness ==
  /\ tickLog.ticked
  /\ bikes[PlayerId].alive
  /\ tickLog.decided[PlayerId].pendingTurn = "RIGHT"
  /\ bikes[PlayerId].dir = TURN_RIGHT[tickLog.decided[PlayerId].dir]
  /\ bikes[PlayerId].pendingTurn = "LEFT"
  /\ \E j \in DOMAIN bikes : ~bikes[j].alive

-----------------------------------------------------------------------------
\* for every bike of the state, peekNext gives a cell and nothing else, and
\* it is the cell step would put the bike on
PeekIsStep ==
  \A i \in DOMAIN bikes :
    LET next == peekNext(bikes[i])
        moved == step(bikes[i])
    IN  /\ DOMAIN next = {"gx", "gz"}
        /\ moved.gx = next.gx /\ moved.gz = next.gz

\* C23: peekNext() returns a cell and changes no entity or grid state, and
\* the cell it returns for an entity is the position the entity holds after
\* the step() of the same tick: the cell checked by collision detection is
\* the cell a survivor moves into.
C23_PeekNext ==
  /\ []PeekIsStep
  /\ [][Tick =>
          \A i \in DOMAIN tickLog'.nextCells :
            /\ tickLog'.nextCells[i] = peekNext(tickLog'.decided[i])
            /\ i \notin tickLog'.dying =>
                 /\ bikes'[i].gx = tickLog'.nextCells[i].gx
                 /\ bikes'[i].gz = tickLog'.nextCells[i].gz
                 /\ bikes'[i].alive]_vars

\* a survivor of the tick had a turn pending, so that the cell checked was
\* not the cell straight ahead, and stands on the cell checked
C23_Witness ==
  /\ tickLog.ticked
  /\ \E i \in TickSurvivors :
       /\ tickLog.decided[i].pendingTurn # NULL
       /\ Pos(bikes[i]) = <<tickLog.nextCells[i].gx, tickLog.nextCells[i].gz>>
       /\ Pos(bikes[i]) # <<tickLog.decided[i].gx + DIR_VECTOR[tickLog.decided[i].dir].x,
                            tickLog.decided[i].gz + DIR_VECTOR[tickLog.decided[i].dir].z>>

-----------------------------------------------------------------------------
\* for every bike of the state: jump() at the present time uses one charge
\* and makes the bike airborne, changing nothing else, when the bike is
\* alive, on the ground and has a charge left; otherwise it changes nothing
JumpEffect ==
  \A i \in DOMAIN bikes :
    LET b == bikes[i]
        j == jump(b, now)
    IN  IF b.alive /\ ~isJumping(b, now) /\ b.jumpCount < MAX_JUMPS
        THEN /\ j.jumpCount = b.jumpCount + 1
             /\ isJumping(j, now)
             /\ [j EXCEPT !.jumpCount = b.jumpCount, !.jumpStartMs = b.jumpStartMs] = b
        ELSE j = b

\* C24: jump() makes an entity airborne and uses up exactly one charge only
\* when the entity is alive, grounded and has a charge left, and changes
\* nothing in every other case; the number of jumps used by an entity stays
\* within 0..MAX_JUMPS and, within a session, never decreases.
C24_Jump ==
  /\ []JumpEffect
  /\ [](\A i \in DOMAIN bikes : bikes[i].jumpCount \in 0 .. MAX_JUMPS)
  /\ [][(Keydown("Space") /\ running /\ bikes[PlayerId].alive) =>
          bikes'[PlayerId] = jump(bikes[PlayerId], now)]_vars
  /\ [][~Start =>
          \A i \in DOMAIN bikes \cap DOMAIN bikes' :
            bikes'[i].jumpCount >= bikes[i].jumpCount]_vars

\* the player is in the air on its last charge
C24_Witness ==
  /\ running
  /\ bikes[PlayerId].alive
  /\ bikes[PlayerId].jumpCount = MAX_JUMPS
  /\ isJumping(bikes[PlayerId], now)

\* the player has used its charges and is back on the ground
C24_WitnessSpent ==
  /\ running
  /\ bikes[PlayerId].alive
  /\ bikes[PlayerId].jumpCount = MAX_JUMPS
  /\ ~isJumping(bikes[PlayerId], now)

-----------------------------------------------------------------------------
\* every order in which the bots that decide, the alive ones, can be taken
BotOrders ==
  LET deciding == DOMAIN bots \cap AliveIds(bikes)
  IN  {o \in [1 .. Cardinality(deciding) -> deciding] :
         \A i, j \in DOMAIN o : i # j => o[i] # o[j]}

\* when a tick is about to run: the bots deciding one after the other, in
\* any order, give the decisions each would take on the state before any
\* (with fewer than two bots alive there is one decision at most, and
\* nothing for the order to change)
OrderFree ==
  (upd.active /\ Cardinality(DOMAIN bots \cap AliveIds(bikes)) >= 2) =>
    \A all \in {DecidedBikes(bikes, grid)} :
      \A o \in BotOrders : decideInOrder(o, bikes, grid) = all

\* C25: the decide step of a tick changes nothing but the pendingTurn of
\* the deciding bots, each set at most once to a side: the grid, every
\* position, heading and alive flag and everything else of every bike are as
\* before, the player's pendingTurn too; the order in which the bots decide
\* does not affect any decision.
C25_DecideFrame ==
  /\ []OrderFree
  /\ [][Tick =>
          /\ tickLog'.grid = grid
          /\ \A i \in DOMAIN bikes :
               LET d == tickLog'.decided[i]
               IN  /\ [d EXCEPT !.pendingTurn = bikes[i].pendingTurn] = bikes[i]
                   /\ d.pendingTurn # bikes[i].pendingTurn =>
                        /\ i \in DOMAIN bots
                        /\ bikes[i].alive
                        /\ d.pendingTurn \in {"LEFT", "RIGHT"}]_vars

\* a tick in which two bots queued a turn while the player had one pending
C25_Witness ==
  /\ tickLog.ticked
  /\ tickLog.decided[PlayerId].alive
  /\ tickLog.decided[PlayerId].pendingTurn # NULL
  /\ \E i, j \in DOMAIN bots :
       /\ i # j
       /\ tickLog.decided[i].alive /\ tickLog.decided[i].pendingTurn # NULL
       /\ tickLog.decided[j].alive /\ tickLog.decided[j].pendingTurn # NULL

-----------------------------------------------------------------------------
\* the timestep in effect
TimeStep == IF fastForward THEN FAST_TICK_MS ELSE TICK_MS

\* C26: one call of update runs at most floor((carried-over time + elapsed
\* time) / timestep) ticks, the elapsed time of a frame being clamped to
\* 100 ms; after a call that leaves the session running the carried-over
\* time is at least 0 and less than the timestep then in effect.
C26_BoundedTicks ==
  /\ [][\A e \in Elapsed :
          (Frame(e) /\ running) =>
             /\ tickAccum' = tickAccum + Min(e, FRAME_CLAMP_MS)
             /\ upd'.active => (upd'.budget = tickAccum' /\ upd'.ran = 0
                                  /\ upd'.tickMs = TimeStep)]_vars
  /\ [][Tick =>
          /\ upd.ran + 1 <= upd.budget \div upd.tickMs
          /\ tickAccum' <= upd.budget - (upd.ran + 1) * upd.tickMs
          /\ tickAccum' >= 0]_vars
  /\ []((running /\ ~upd.active) => (tickAccum >= 0 /\ tickAccum < TimeStep))

\* inside a call, fast-forwarding, with two ticks run and a third to come
C26_Witness ==
  /\ upd.active
  /\ upd.ran = 2
  /\ upd.tickMs = FAST_TICK_MS

\* a call of three ticks has left 10 ms over
C26_WitnessCarry ==
  /\ running
  /\ ~upd.active
  /\ tickLog.ticked
  /\ fastForward
  /\ tickAccum = 10

\* a call ended by the tick in which the player died and the session
\* switched to fast-forward
C26_WitnessReset ==
  /\ running
  /\ ~upd.active
  /\ tickLog.ticked
  /\ PlayerId \in tickLog.dying
  /\ tickAccum = 0

-----------------------------------------------------------------------------
\* C27: at every tick boundary no two alive entities are at the same
\* position, whatever turns, jumps and ticks came before and whether the
\* entities are on the ground or in the air.
C27_DistinctPositions ==
  \A i, j \in AliveIds(bikes) : i # j => Pos(bikes[i]) # Pos(bikes[j])

\* a tick in which two bikes made for the same cell has left two bikes alive,
\* one of them in the air
C27_Witness ==
  /\ tickLog.ticked
  /\ \E i, j \in TickAlive :
       i # j /\ SameCell(tickLog.nextCells[i], tickLog.nextCells[j])
  /\ Cardinality(AliveIds(bikes)) >= 2
  /\ \E i \in AliveIds(bikes) : isJumping(bikes[i], now)

-----------------------------------------------------------------------------
\* C28: at a tick boundary no grounded alive entity is positioned on a cell
\* that the grid records as claimed by a different entity.
C28_GroundedOffForeignCells ==
  \A i \in AliveIds(bikes) :
    (~isJumping(bikes[i], now) /\ Pos(bikes[i]) \in DOMAIN grid) =>
       grid[Pos(bikes[i])] = i

-----------------------------------------------------------------------------
\* C29: within one tick the airborne status of an entity is the same where
\* collision detection reads it and where commit-moves reads it: a survivor
\* exempted from the trail check as airborne claims no cell, and a survivor
\* checked as grounded claims the cell it leaves.
C29_SameStatus ==
  tickLog.ticked =>
    \A i \in TickSurvivors :
      /\ (i \in tickLog.jumpDetect) = (i \in tickLog.jumpCommit)
      /\ i \in tickLog.jumpDetect =>
           (Owns(grid, i, Pos(tickLog.decided[i]))
              => Owns(tickLog.grid, i, Pos(tickLog.decided[i])))
      /\ i \notin tickLog.jumpDetect => Owns(grid, i, Pos(tickLog.decided[i]))

-----------------------------------------------------------------------------
\* C30: every session terminates: as long as frames and ticks keep being
\* executed, from every reachable state in which a session is running, and
\* whatever turns and jumps are made, a state is reached in which at most
\* one entity is alive and the session is no longer running.
C30_Terminates ==
  running ~> (~running /\ Cardinality(AliveIds(bikes)) <= 1)

\* a session has ended with one bike left, after the player had used both
\* its jumps
C30_Witness ==
  /\ ~running
  /\ tickLog.ticked
  /\ Cardinality(AliveIds(bikes)) = 1
  /\ bikes[PlayerId].jumpCount = MAX_JUMPS

====
